---- MODULE Spec2Model ----
(***************************************************************************)
(* Model of src/watcher/macos.rs: MacosUsbWatcher::start_monitoring, its   *)
(* two property helpers, and the tokio mpsc channel it publishes on.       *)
(*                                                                         *)
(* One pass of start_monitoring is a sequential process whose position is  *)
(* pc.  The only point where another task can run is the await of          *)
(* tx.send (line 107); the consumer (the receiving half of the channel)    *)
(* is modelled by Recv and DropReceiver.                                   *)
(*                                                                         *)
(* Option<T> is modelled as a sequence: <<>> is None, <<x>> is Some(x).    *)
(* A Rust String that the pass formats (hex ids, decimal renderings) is a  *)
(* sequence of one-character strings; names and serial numbers, which are  *)
(* only copied, are TLA+ strings.                                          *)
(***************************************************************************)
EXTENDS Integers, Sequences, FiniteSets, TLC

\* ------------------------------------------------------------- bounds
\* Most records the registry iterator yields in one pass.
MaxRecords == 2
\* Capacity of the bounded mpsc channel (the consumer's choice, >= 1).
Cap == 1

\* ------------------------------------------------- native environment
\* Null pointer / the "no more records" sentinel of IOIteratorNext.
NULL == 0
\* A non-null CFMutableDictionaryRef returned by IOServiceMatching.
DictRef == 1
\* The io_iterator_t written by IOServiceGetMatchingServices.
IterPort == 259
\* io_object_t of the i-th record the iterator yields (distinct, non-zero).
DevicePort(i) == IterPort + 4 * i

\* kern_return_t values IOServiceGetMatchingServices may report
\* (0 = KERN_SUCCESS, 5 = KERN_FAILURE, 0xe00002bc as i32 = kIOReturnError).
LookupStatuses == {0, 5, -536870212}

\* What IORegistryEntryGetName yields for a record: <<>> when the call
\* fails, <<name>> when it succeeds.
NameOutcomes == {<<>>, <<"Widget">>}
\* The CFNumber stored under idVendor / idProduct: <<>> when the property is
\* absent, <<n>> for a number of value n (IOKit numbers are wider than 16
\* bits, so n may lie outside the signed 16-bit range).  The helpers cast
\* the reference without checking its type (lines 138 and 176); the registry
\* keeps numbers under the two id keys and text under the serial number key,
\* and the records below hold nothing else.
NumberProps ==
    {<<>>, <<0>>, <<10>>, <<4660>>, <<22136>>, <<32767>>,
     <<-1>>, <<-32768>>, <<32903>>, <<65535>>}
\* The CFString stored under "USB Serial Number": <<>> absent, <<s>> present.
SerialProps == {<<>>, <<"">>, <<"ABC123">>}

\* Every record the value sets above can form.
AllRecords ==
    [name : NameOutcomes, idVendor : NumberProps,
     idProduct : NumberProps, serial : SerialProps]

\* The vendor/product pairs of the records that registries of several
\* records are built from: both absent, both readable, and one failing the
\* 16-bit coercion next to a readable one.
IdPairs ==
    { [idVendor |-> <<>>,      idProduct |-> <<>>],
      [idVendor |-> <<4660>>,  idProduct |-> <<22136>>],
      [idVendor |-> <<32903>>, idProduct |-> <<10>>] }

Records ==
    { [name |-> n, idVendor |-> p.idVendor, idProduct |-> p.idProduct, serial |-> s] :
        n \in NameOutcomes, p \in IdPairs, s \in SerialProps }

\* The registry contents a pass may meet: every sequence of up to MaxRecords
\* records of Records, and every record of AllRecords on its own.
Registries ==
    UNION {[1..n -> Records] : n \in 0..MaxRecords}
        \cup {<<r>> : r \in AllRecords}

\* ------------------------------------------------------ pure functions
HexDigit(d) ==
    <<"0","1","2","3","4","5","6","7","8","9","a","b","c","d","e","f">>[d + 1]

\* Rust's {:x} of an unsigned integer: the lowercase hex digits, no padding.
RECURSIVE LowerHex(_)
LowerHex(n) ==
    IF n < 16 THEN <<HexDigit(n)>>
    ELSE LowerHex(n \div 16) \o <<HexDigit(n % 16)>>

\* Zero padding on the left up to a minimum width w (the "04" of {:04x}).
RECURSIVE PadZero(_, _)
PadZero(s, w) == IF Len(s) >= w THEN s ELSE PadZero(<<"0">> \o s, w)

\* {:x} without the width: what a slip in the format string would render.
Format04x_NoPad(id) == LowerHex(id)

\* format!("{:04x}", id) for id: u16 (lines 85 and 90).
Format04x(id) == PadZero(LowerHex(id), 4)

DecDigit(d) == <<"0","1","2","3","4","5","6","7","8","9">>[d + 1]

RECURSIVE DecDigits(_)
DecDigits(n) ==
    IF n < 10 THEN <<DecDigit(n)>>
    ELSE DecDigits(n \div 10) \o <<DecDigit(n % 10)>>

\* Display of a Rust integer ({kr}, {device}): decimal, '-' when negative.
Display(n) == IF n < 0 THEN <<"-">> \o DecDigits(-n) ELSE DecDigits(n)

\* CFNumberGetValue(number, kCFNumberSInt16Type, &mut value as *mut u16):
\* succeeds exactly when the number fits a signed 16-bit integer, and the
\* two bytes written are then read back as a u16.
CFNumberGetValue(n) ==
    [ok |-> (-32768 <= n /\ n <= 32767), value |-> n % 65536]

\* IORegistryEntryCreateCFProperty(device, key, ..): the property stored in
\* the record under key (<<>> models the null pointer).
IORegistryEntryCreateCFProperty(rec, key) ==
    CASE key = "idVendor" -> rec.idVendor
      [] key = "idProduct" -> rec.idProduct
      [] key = "USB Serial Number" -> rec.serial

\* The helper without the CFRelease of its else branch (line 148).
get_device_property_u16_LeakOnMismatch(rec, key) ==
    LET prop == IORegistryEntryCreateCFProperty(rec, key) IN
    IF prop = <<>> THEN [ret |-> <<>>, acquired |-> 0, released |-> 0]
    ELSE LET r == CFNumberGetValue(prop[1]) IN
         IF r.ok THEN [ret |-> <<r.value>>, acquired |-> 1, released |-> 1]
         ELSE [ret |-> <<>>, acquired |-> 1, released |-> 0]

\* The helper returning the value written even when CFNumberGetValue
\* reports failure.
get_device_property_u16_IgnoreCoercion(rec, key) ==
    LET prop == IORegistryEntryCreateCFProperty(rec, key) IN
    IF prop = <<>> THEN [ret |-> <<>>, acquired |-> 0, released |-> 0]
    ELSE [ret |-> <<CFNumberGetValue(prop[1]).value>>,
          acquired |-> 1, released |-> 1]

\* get_device_property_u16 (lines 116-151): the Option<u16> returned, and how
\* many property references the call acquired and released.  (The CFString
\* built for the key is an owned value, dropped on every return.)
get_device_property_u16(rec, key) ==
    LET prop == IORegistryEntryCreateCFProperty(rec, key) IN
    IF prop = <<>> THEN [ret |-> <<>>, acquired |-> 0, released |-> 0]
    ELSE LET r == CFNumberGetValue(prop[1]) IN
         IF r.ok THEN [ret |-> <<r.value>>, acquired |-> 1, released |-> 1]
         ELSE [ret |-> <<>>, acquired |-> 1, released |-> 1]

\* The helper without the is_empty test of line 180.
get_device_property_string_KeepEmpty(rec, key) ==
    LET prop == IORegistryEntryCreateCFProperty(rec, key) IN
    IF prop = <<>> THEN [ret |-> <<>>, acquired |-> 0, released |-> 0]
    ELSE [ret |-> <<prop[1]>>, acquired |-> 1, released |-> 1]

\* The helper leaking the reference when the text is empty.
get_device_property_string_LeakOnEmpty(rec, key) ==
    LET prop == IORegistryEntryCreateCFProperty(rec, key) IN
    IF prop = <<>> THEN [ret |-> <<>>, acquired |-> 0, released |-> 0]
    ELSE LET rust_string == prop[1] IN
         IF rust_string = "" THEN [ret |-> <<>>, acquired |-> 1, released |-> 0]
         ELSE [ret |-> <<rust_string>>, acquired |-> 1, released |-> 1]

\* get_device_property_string (lines 154-185): wrap_under_create_rule takes
\* ownership of the reference and the temporary CFString is dropped (released)
\* at the end of the statement of lines 177-178, on both outcomes.
get_device_property_string(rec, key) ==
    LET prop == IORegistryEntryCreateCFProperty(rec, key) IN
    IF prop = <<>> THEN [ret |-> <<>>, acquired |-> 0, released |-> 0]
    ELSE LET rust_string == prop[1] IN
         IF rust_string = "" THEN [ret |-> <<>>, acquired |-> 1, released |-> 1]
         ELSE [ret |-> <<rust_string>>, acquired |-> 1, released |-> 1]

\* The keys of property references a helper call left unreleased.
Unreleased(r, key) == IF r.acquired > r.released THEN {key} ELSE {}

\* tokio::sync::mpsc::Sender::send, one poll: the semaphore is closed once the
\* receiver is gone ("closed", Err(SendError)); otherwise a permit is taken
\* when the queue has room ("ready"), and the future is Pending when it has not.
SendClosedLast(ch, alive) ==
    IF Len(ch) < Cap THEN "ready" ELSE IF ~alive THEN "closed" ELSE "pending"

\* A send that never learns of the receiver's death and keeps waiting.
SendPoll_ClosedPends(ch, alive) ==
    IF alive /\ Len(ch) < Cap THEN "ready" ELSE "pending"

SendPoll(ch, alive) ==
    IF ~alive THEN "closed" ELSE IF Len(ch) < Cap THEN "ready" ELSE "pending"

\* --------------------------------------------------------------- state
VARIABLES
    pc,             \* position of the pass inside start_monitoring
    result,         \* the Result<(), String> returned, once returned
    matching_dict,  \* line 54
    kr,             \* line 60: <<>> before the call, <<status>> after it
    iter,           \* line 59: io_iterator_t, 0 until the registry writes it
    registry,       \* the records behind iter, in the order it yields them
    cursor,         \* how many records iter has yielded
    device,         \* line 66
    device_name,    \* line 74
    vendor_id,      \* line 83
    product_id,     \* line 88
    serial_number,  \* line 94
    chan,           \* the queue of the mpsc channel behind self.tx
    rxAlive,        \* whether the channel's receiver still exists
    received,       \* what the consumer has taken out of the channel
    heldIO,         \* io_object_t handles acquired and not yet released
    heldCF,         \* CoreFoundation references acquired and not yet released
    recAcquired,    \* native resources acquired for the current record
    recReleased,    \* native resources released for the current record
    iterReleases,   \* calls of IOObjectRelease(iter)
    nextCalls,      \* calls of IOIteratorNext
    sendAttempts,   \* calls of self.tx.send
    sendOk,         \* sends that placed their event on the channel
    sendFails,      \* sends that returned Err (the event was dropped)
    visited,        \* records whose loop body ran to its end
    startedClosed,  \* whether the receiver was already gone when the pass began
    \* A second call of start_monitoring on the same watcher (the same tx),
    \* with its own locals:
    pcB, resultB, iterB, registryB, cursorB, deviceB,
    device_nameB, vendor_idB, product_idB, serial_numberB,
    heldIOB,        \* io_object_t references the second pass holds
    sendOkB         \* sends of the second pass that placed their event

passVars ==
    <<pc, result, matching_dict, kr, iter, registry, cursor, device>>
locals == <<device_name, vendor_id, product_id, serial_number>>
chanVars == <<chan, rxAlive, received>>
resVars == <<heldIO, heldCF, recAcquired, recReleased, iterReleases>>
countVars == <<nextCalls, sendAttempts, sendOk, sendFails, visited, startedClosed>>
passBVars ==
    <<pcB, resultB, iterB, registryB, cursorB, deviceB,
      device_nameB, vendor_idB, product_idB, serial_numberB, heldIOB, sendOkB>>
passAVars == <<passVars, locals, resVars, countVars>>
vars == <<passVars, locals, chanVars, resVars, countVars, passBVars>>

Pending == [kind |-> "Pending", msg |-> <<>>]
Ok == [kind |-> "Ok", msg |-> <<>>]
Err(m) == [kind |-> "Err", msg |-> m]

\* The default of unwrap_or_else(|| "0000".to_string()) (lines 86, 91).
DefaultId == <<"0", "0", "0", "0">>
\* The placeholder of line 79.
UnknownName == "Unknown USB Device"

\* The event with the other kind of DeviceEventType.
UsbDeviceInfo_Disconnected ==
    [device_name |-> device_name,
     vendor_id |-> vendor_id,
     product_id |-> product_id,
     serial_number |-> serial_number,
     event_type |-> "Disconnected",
     device_handle |-> [Macos |-> [device_id |-> Display(device)]]]

\* The UsbDeviceInfo of lines 96-106 (the timestamp, which no operation of
\* the pass reads, is left out).
UsbDeviceInfo ==
    [device_name |-> device_name,
     vendor_id |-> vendor_id,
     product_id |-> product_id,
     serial_number |-> serial_number,
     event_type |-> "Connected",
     device_handle |-> [Macos |-> [device_id |-> Display(device)]]]

Init ==
    /\ pc = "idle"
    /\ result = Pending
    /\ matching_dict = NULL
    /\ kr = <<>>
    /\ iter = 0
    /\ registry = <<>>
    /\ cursor = 0
    /\ device = 0
    /\ device_name = ""
    /\ vendor_id = <<>>
    /\ product_id = <<>>
    /\ serial_number = <<>>
    /\ chan = <<>>
    /\ rxAlive \in BOOLEAN
    /\ received = <<>>
    /\ heldIO = {}
    /\ heldCF = {}
    /\ recAcquired = 0
    /\ recReleased = 0
    /\ iterReleases = 0
    /\ nextCalls = 0
    /\ sendAttempts = 0
    /\ sendOk = 0
    /\ sendFails = 0
    /\ visited = 0
    /\ startedClosed = ~rxAlive
    /\ pcB = "idle"
    /\ resultB = Pending
    /\ iterB = 0
    /\ registryB = <<>>
    /\ cursorB = 0
    /\ deviceB = 0
    /\ device_nameB = ""
    /\ vendor_idB = <<>>
    /\ product_idB = <<>>
    /\ serial_numberB = <<>>
    /\ heldIOB = {}
    /\ sendOkB = 0

\* ------------------------------------------------------------ the pass
\* The null check left out.
IsNull_Never(p) == FALSE

\* matching_dict.is_null() (line 55).
IsNull(p) == p = NULL

\* Lines 54-57: build the matching dictionary; return Err when it is null.
IOServiceMatching ==
    /\ UNCHANGED passBVars
    /\ pc = "idle"
    /\ \E d \in {NULL, DictRef} :
         /\ matching_dict' = d
         /\ heldCF' = IF d = NULL THEN heldCF ELSE heldCF \cup {"matching_dict"}
         /\ IF IsNull(d)
            THEN /\ result' = Err(<<"Failed to create matching dictionary for IOUSBDevice">>)
                 /\ pc' = "done"
            ELSE /\ result' = result
                 /\ pc' = "lookup"
    /\ UNCHANGED <<kr, iter, registry, cursor, device, locals, chanVars,
                   heldIO, recAcquired, recReleased, iterReleases, countVars>>

\* kr > 0 in place of kr != 0: negative statuses pass as success.
LookupFailed_PositiveOnly(s) == s > 0

\* kr != 0 (line 61).
LookupFailed(s) == s # 0

\* Lines 59-63: the registry lookup.  The call consumes the reference to the
\* matching dictionary whatever it returns; with status 0 it writes a new
\* iterator over the matching records into iter.
IOServiceGetMatchingServices ==
    /\ UNCHANGED passBVars
    /\ pc = "lookup"
    /\ \E s \in LookupStatuses :
         /\ kr' = <<s>>
         /\ heldCF' = heldCF \ {"matching_dict"}
         /\ IF s = 0
            THEN \E reg \in Registries :
                    /\ registry' = reg
                    /\ iter' = IterPort
                    /\ heldIO' = heldIO \cup {IterPort}
            ELSE UNCHANGED <<registry, iter, heldIO>>
         /\ IF LookupFailed(s)
            THEN /\ result' = Err(<<"IOServiceGetMatchingServices failed: ">> \o Display(s))
                 /\ pc' = "done"
            ELSE /\ result' = result
                 /\ pc' = "next"
    /\ UNCHANGED <<matching_dict, cursor, device, locals, chanVars,
                   recAcquired, recReleased, iterReleases, countVars>>

\* Lines 66-69: draw the next record; 0 ends the loop.  An iterator handle
\* of 0 is no iterator and yields 0.
IOIteratorNext ==
    /\ UNCHANGED passBVars
    /\ pc = "next"
    /\ nextCalls' = nextCalls + 1
    /\ IF iter # 0 /\ cursor < Len(registry)
       THEN /\ cursor' = cursor + 1
            /\ device' = DevicePort(cursor + 1)
            /\ heldIO' = heldIO \cup {DevicePort(cursor + 1)}
            /\ recAcquired' = 1
            /\ recReleased' = 0
            /\ pc' = "name"
       ELSE /\ device' = 0
            /\ pc' = "iter_release"
            /\ UNCHANGED <<cursor, heldIO, recAcquired, recReleased>>
    /\ UNCHANGED <<result, matching_dict, kr, iter, registry, locals, chanVars,
                   heldCF, iterReleases, sendAttempts, sendOk, sendFails,
                   visited, startedClosed>>

\* `break` when the name lookup fails, in place of the placeholder.
IORegistryEntryGetName_BreakOnFail ==
    /\ UNCHANGED passBVars
    /\ pc = "name"
    /\ device_name' = IF registry[cursor].name # <<>>
                      THEN registry[cursor].name[1]
                      ELSE UnknownName
    /\ pc' = IF registry[cursor].name # <<>> THEN "vendor" ELSE "iter_release"
    /\ UNCHANGED <<result, matching_dict, kr, iter, registry, cursor, device,
                   vendor_id, product_id, serial_number, chanVars, resVars,
                   countVars>>

\* Lines 72-80: the display name, or the placeholder when the lookup fails.
IORegistryEntryGetName ==
    /\ UNCHANGED passBVars
    /\ pc = "name"
    /\ device_name' = IF registry[cursor].name # <<>>
                      THEN registry[cursor].name[1]
                      ELSE UnknownName
    /\ pc' = "vendor"
    /\ UNCHANGED <<result, matching_dict, kr, iter, registry, cursor, device,
                   vendor_id, product_id, serial_number, chanVars, resVars,
                   countVars>>

\* .map(|id| format!("{:04x}", id)).unwrap_or_else(|| "0000".to_string())
IdText(opt) == IF opt # <<>> THEN Format04x(opt[1]) ELSE DefaultId

\* Lines 83-86.
ReadVendor ==
    /\ UNCHANGED passBVars
    /\ pc = "vendor"
    /\ LET r == get_device_property_u16(registry[cursor], "idVendor") IN
         /\ vendor_id' = IdText(r.ret)
         /\ recAcquired' = recAcquired + r.acquired
         /\ recReleased' = recReleased + r.released
         /\ heldCF' = heldCF \cup Unreleased(r, "idVendor")
    /\ pc' = "product"
    /\ UNCHANGED <<result, matching_dict, kr, iter, registry, cursor, device,
                   device_name, product_id, serial_number, chanVars, heldIO,
                   iterReleases, countVars>>

\* The product read with the vendor's key.
ReadProduct_WrongKey ==
    /\ UNCHANGED passBVars
    /\ pc = "product"
    /\ LET r == get_device_property_u16(registry[cursor], "idVendor") IN
         /\ product_id' = IdText(r.ret)
         /\ recAcquired' = recAcquired + r.acquired
         /\ recReleased' = recReleased + r.released
         /\ heldCF' = heldCF \cup Unreleased(r, "idVendor")
    /\ pc' = "serial"
    /\ UNCHANGED <<result, matching_dict, kr, iter, registry, cursor, device,
                   device_name, vendor_id, serial_number, chanVars, heldIO,
                   iterReleases, countVars>>

\* Lines 88-91.
ReadProduct ==
    /\ UNCHANGED passBVars
    /\ pc = "product"
    /\ LET r == get_device_property_u16(registry[cursor], "idProduct") IN
         /\ product_id' = IdText(r.ret)
         /\ recAcquired' = recAcquired + r.acquired
         /\ recReleased' = recReleased + r.released
         /\ heldCF' = heldCF \cup Unreleased(r, "idProduct")
    /\ pc' = "serial"
    /\ UNCHANGED <<result, matching_dict, kr, iter, registry, cursor, device,
                   device_name, vendor_id, serial_number, chanVars, heldIO,
                   iterReleases, countVars>>

\* The serial number read followed at once by IOObjectRelease(device), ahead
\* of the construction of the event.
ReadSerial_ReleasesEarly ==
    /\ UNCHANGED passBVars
    /\ pc = "serial"
    /\ LET r == get_device_property_string(registry[cursor], "USB Serial Number") IN
         /\ serial_number' = r.ret
         /\ recAcquired' = recAcquired + r.acquired
         /\ recReleased' = recReleased + r.released
         /\ heldCF' = heldCF \cup Unreleased(r, "USB Serial Number")
    /\ heldIO' = heldIO \ {device}
    /\ pc' = "send"
    /\ UNCHANGED <<result, matching_dict, kr, iter, registry, cursor, device,
                   device_name, vendor_id, product_id, chanVars,
                   iterReleases, countVars>>

\* Line 94.
ReadSerial ==
    /\ UNCHANGED passBVars
    /\ pc = "serial"
    /\ LET r == get_device_property_string(registry[cursor], "USB Serial Number") IN
         /\ serial_number' = r.ret
         /\ recAcquired' = recAcquired + r.acquired
         /\ recReleased' = recReleased + r.released
         /\ heldCF' = heldCF \cup Unreleased(r, "USB Serial Number")
    /\ pc' = "send"
    /\ UNCHANGED <<result, matching_dict, kr, iter, registry, cursor, device,
                   device_name, vendor_id, product_id, chanVars, heldIO,
                   iterReleases, countVars>>

\* `break` on a failed send in place of `let _ =`.
SendCompletes_BreakOnErr(outcome) ==
    /\ outcome # "pending"
    /\ IF outcome = "ready"
       THEN /\ chan' = Append(chan, UsbDeviceInfo)
            /\ sendOk' = sendOk + 1
            /\ sendFails' = sendFails
            /\ pc' = "release"
       ELSE /\ chan' = chan
            /\ sendOk' = sendOk
            /\ sendFails' = sendFails + 1
            /\ pc' = "iter_release"

\* What a completed send does: Ok places the event on the queue, Err drops
\* it; `let _ =` discards the Result and the loop body goes on (line 108).
SendCompletes(outcome) ==
    /\ outcome # "pending"
    /\ IF outcome = "ready"
       THEN /\ chan' = Append(chan, UsbDeviceInfo)
            /\ sendOk' = sendOk + 1
            /\ sendFails' = sendFails
       ELSE /\ chan' = chan
            /\ sendOk' = sendOk
            /\ sendFails' = sendFails + 1
    /\ pc' = "release"

\* The send left out when the receiver is already gone.
Send_SkipWhenClosed ==
    /\ UNCHANGED passBVars
    /\ pc = "send"
    /\ IF ~rxAlive
       THEN /\ pc' = "release"
            /\ UNCHANGED <<sendAttempts, chan, sendOk, sendFails>>
       ELSE /\ sendAttempts' = sendAttempts + 1
            /\ LET outcome == SendPoll(chan, rxAlive) IN
                 IF outcome = "pending"
                 THEN /\ pc' = "send_wait"
                      /\ UNCHANGED <<chan, sendOk, sendFails>>
                 ELSE SendCompletes(outcome)
    /\ UNCHANGED <<result, matching_dict, kr, iter, registry, cursor, device,
                   locals, rxAlive, received, resVars, nextCalls, visited,
                   startedClosed>>

\* Lines 96-107: build the event and poll self.tx.send(info) for the first
\* time; the future is suspended when the queue is full and the receiver lives.
Send ==
    /\ UNCHANGED passBVars
    /\ pc = "send"
    /\ sendAttempts' = sendAttempts + 1
    /\ LET outcome == SendPoll(chan, rxAlive) IN
         IF outcome = "pending"
         THEN /\ pc' = "send_wait"
              /\ UNCHANGED <<chan, sendOk, sendFails>>
         ELSE SendCompletes(outcome)
    /\ UNCHANGED <<result, matching_dict, kr, iter, registry, cursor, device,
                   locals, rxAlive, received, resVars, nextCalls, visited,
                   startedClosed>>

\* Line 107, resumed: the suspended send is woken when the queue has room
\* again or the receiver is gone.
SendResume ==
    /\ UNCHANGED passBVars
    /\ pc = "send_wait"
    /\ SendCompletes(SendPoll(chan, rxAlive))
    /\ UNCHANGED <<result, matching_dict, kr, iter, registry, cursor, device,
                   locals, rxAlive, received, resVars, nextCalls, sendAttempts,
                   visited, startedClosed>>

\* The end of the loop body without IOObjectRelease(device).
ReleaseDevice_Skipped ==
    /\ UNCHANGED passBVars
    /\ pc = "release"
    /\ visited' = visited + 1
    /\ device_name' = ""
    /\ vendor_id' = <<>>
    /\ product_id' = <<>>
    /\ serial_number' = <<>>
    /\ pc' = "next"
    /\ UNCHANGED <<result, matching_dict, kr, iter, registry, cursor, device,
                   chanVars, resVars, nextCalls,
                   sendAttempts, sendOk, sendFails, startedClosed>>

\* Line 108: IOObjectRelease(device); the loop body ends and its locals go.
ReleaseDevice ==
    /\ UNCHANGED passBVars
    /\ pc = "release"
    /\ heldIO' = heldIO \ {device}
    /\ recReleased' = recReleased + 1
    /\ visited' = visited + 1
    /\ device_name' = ""
    /\ vendor_id' = <<>>
    /\ product_id' = <<>>
    /\ serial_number' = <<>>
    /\ pc' = "next"
    /\ UNCHANGED <<result, matching_dict, kr, iter, registry, cursor, device,
                   chanVars, heldCF, recAcquired, iterReleases, nextCalls,
                   sendAttempts, sendOk, sendFails, startedClosed>>

\* Ok(()) without the IOObjectRelease(iter) before it.
ReleaseIterator_Skipped ==
    /\ UNCHANGED passBVars
    /\ pc = "iter_release"
    /\ result' = Ok
    /\ pc' = "done"
    /\ UNCHANGED <<matching_dict, kr, iter, registry, cursor, device, locals,
                   chanVars, resVars, countVars>>

\* Lines 110-112: IOObjectRelease(iter), then Ok(()).
ReleaseIterator ==
    /\ UNCHANGED passBVars
    /\ pc = "iter_release"
    /\ heldIO' = heldIO \ {iter}
    /\ iterReleases' = iterReleases + 1
    /\ result' = Ok
    /\ pc' = "done"
    /\ UNCHANGED <<matching_dict, kr, iter, registry, cursor, device, locals,
                   chanVars, heldCF, recAcquired, recReleased, countVars>>

\* -------------------------------------------------------- the consumer
\* The receiving task takes the oldest event out of the queue.
Recv ==
    /\ UNCHANGED passBVars
    /\ rxAlive
    /\ chan # <<>>
    /\ received' = Append(received, Head(chan))
    /\ chan' = Tail(chan)
    /\ UNCHANGED <<passVars, locals, rxAlive, resVars, countVars>>

\* The receiver is dropped: the channel closes and its queue is discarded.
DropReceiver ==
    /\ UNCHANGED passBVars
    /\ rxAlive
    /\ rxAlive' = FALSE
    /\ chan' = <<>>
    /\ UNCHANGED <<passVars, locals, received, resVars, countVars>>

\* ------------------------------------------------------- specification
Pass ==
    \/ IOServiceMatching
    \/ IOServiceGetMatchingServices
    \/ IOIteratorNext
    \/ IORegistryEntryGetName
    \/ ReadVendor
    \/ ReadProduct
    \/ ReadSerial
    \/ Send
    \/ SendResume
    \/ ReleaseDevice
    \/ ReleaseIterator

Consumer == Recv \/ DropReceiver

Next == Pass \/ Consumer

Spec == Init /\ [][Next]_vars

\* The executor polls the task of the pass whenever it can make a step; no
\* fairness is assumed of the consumer, which the watcher does not control.
LiveSpec == Init /\ [][Next]_vars /\ WF_vars(Pass)

\* ------------------------------------------------------- abandonment
\* The caller drops the future of start_monitoring while it is suspended at
\* the await of line 107 (the only point where a future that has started can
\* be dropped).  The drop frees the values the future owns (the event and its
\* Strings); iter and device are plain integers, for which no destructor
\* runs, and lines 108 and 110 are never reached.
Abandon ==
    /\ UNCHANGED passBVars
    /\ pc = "send_wait"
    /\ pc' = "cancelled"
    /\ device_name' = ""
    /\ vendor_id' = <<>>
    /\ product_id' = <<>>
    /\ serial_number' = <<>>
    /\ UNCHANGED <<result, matching_dict, kr, iter, registry, cursor, device,
                   chanVars, resVars, countVars>>

NextCancel == Next \/ Abandon

\* The pass with a caller that may abandon it.
CancelSpec == Init /\ [][NextCancel]_vars

\* ------------------------------------------------ two interleaved passes
\* start_monitoring takes &self, so a caller may hold two futures of it on
\* the same watcher and poll them from one task (join!, select!).  Each
\* future keeps its own locals; self.tx is the one thing they share.  The
\* second future is modelled with its own copy of the locals of lines 54-94
\* and the same operations; the counters that only describe one pass on its
\* own (the CoreFoundation balance, the calls of IOIteratorNext) are kept
\* for the first pass only.

\* The name of the second iterator: two iterators that are live together are
\* two ports of the task, and the registry never gives them one name.
IterPortB == IterPort + 2

\* The records the two passes of TwoSpec meet: the record with every
\* property readable and the record with none.
TwoRecords ==
    { [name |-> <<"Widget">>, idVendor |-> <<4660>>, idProduct |-> <<22136>>,
       serial |-> <<"ABC123">>],
      [name |-> <<>>, idVendor |-> <<>>, idProduct |-> <<>>, serial |-> <<>>] }

\* Each lookup takes its own snapshot of the registry.
TwoRegistries == UNION {[1..n -> TwoRecords] : n \in 0..MaxRecords}

\* A future is polled until it returns or suspends: the other future of the
\* task runs only while this one has not started, waits in the send of line
\* 107, or has returned.
ParkedA == pc \in {"idle", "send_wait", "done"}
ParkedB == pcB \in {"idle", "send_wait", "done"}

\* Lines 54-57, second pass.
IOServiceMatchingB ==
    /\ pcB = "idle"
    /\ \E d \in {NULL, DictRef} :
         IF IsNull(d)
         THEN /\ resultB' = Err(<<"Failed to create IOServiceMatching dictionary">>)
              /\ pcB' = "done"
         ELSE /\ resultB' = resultB
              /\ pcB' = "lookup"
    /\ UNCHANGED <<iterB, registryB, cursorB, deviceB, device_nameB, vendor_idB,
                   product_idB, serial_numberB, heldIOB, sendOkB>>
    /\ UNCHANGED <<passAVars, chanVars>>

\* Lines 59-63, second pass.
IOServiceGetMatchingServicesB ==
    /\ pcB = "lookup"
    /\ \E s \in LookupStatuses :
         /\ IF s = 0
            THEN \E reg \in TwoRegistries :
                    /\ registryB' = reg
                    /\ iterB' = IterPortB
                    /\ heldIOB' = heldIOB \cup {IterPortB}
            ELSE UNCHANGED <<registryB, iterB, heldIOB>>
         /\ IF LookupFailed(s)
            THEN /\ resultB' = Err(<<"IOServiceGetMatchingServices failed: ">> \o Display(s))
                 /\ pcB' = "done"
            ELSE /\ resultB' = resultB
                 /\ pcB' = "next"
    /\ UNCHANGED <<cursorB, deviceB, device_nameB, vendor_idB, product_idB,
                   serial_numberB, sendOkB>>
    /\ UNCHANGED <<passAVars, chanVars>>

\* Lines 66-69, second pass.  A record both iterators yield is the same
\* registry entry, and the task knows it under one port name, of which each
\* IOIteratorNext gives its caller one reference.
IOIteratorNextB ==
    /\ pcB = "next"
    /\ IF iterB # 0 /\ cursorB < Len(registryB)
       THEN /\ cursorB' = cursorB + 1
            /\ deviceB' = DevicePort(cursorB + 1)
            /\ heldIOB' = heldIOB \cup {DevicePort(cursorB + 1)}
            /\ pcB' = "name"
       ELSE /\ deviceB' = 0
            /\ pcB' = "iter_release"
            /\ UNCHANGED <<cursorB, heldIOB>>
    /\ UNCHANGED <<resultB, iterB, registryB, device_nameB, vendor_idB,
                   product_idB, serial_numberB, sendOkB>>
    /\ UNCHANGED <<passAVars, chanVars>>

\* Lines 72-80, second pass.
IORegistryEntryGetNameB ==
    /\ pcB = "name"
    /\ device_nameB' = IF registryB[cursorB].name # <<>>
                       THEN registryB[cursorB].name[1]
                       ELSE UnknownName
    /\ pcB' = "vendor"
    /\ UNCHANGED <<resultB, iterB, registryB, cursorB, deviceB, vendor_idB,
                   product_idB, serial_numberB, heldIOB, sendOkB>>
    /\ UNCHANGED <<passAVars, chanVars>>

\* Lines 83-86, second pass.
ReadVendorB ==
    /\ pcB = "vendor"
    /\ vendor_idB' = IdText(get_device_property_u16(registryB[cursorB], "idVendor").ret)
    /\ pcB' = "product"
    /\ UNCHANGED <<resultB, iterB, registryB, cursorB, deviceB, device_nameB,
                   product_idB, serial_numberB, heldIOB, sendOkB>>
    /\ UNCHANGED <<passAVars, chanVars>>

\* Lines 88-91, second pass.
ReadProductB ==
    /\ pcB = "product"
    /\ product_idB' = IdText(get_device_property_u16(registryB[cursorB], "idProduct").ret)
    /\ pcB' = "serial"
    /\ UNCHANGED <<resultB, iterB, registryB, cursorB, deviceB, device_nameB,
                   vendor_idB, serial_numberB, heldIOB, sendOkB>>
    /\ UNCHANGED <<passAVars, chanVars>>

\* Line 94, second pass.
ReadSerialB ==
    /\ pcB = "serial"
    /\ serial_numberB' =
           get_device_property_string(registryB[cursorB], "USB Serial Number").ret
    /\ pcB' = "send"
    /\ UNCHANGED <<resultB, iterB, registryB, cursorB, deviceB, device_nameB,
                   vendor_idB, product_idB, heldIOB, sendOkB>>
    /\ UNCHANGED <<passAVars, chanVars>>

\* Lines 96-106, built from the locals of the second pass.
UsbDeviceInfoB ==
    [device_name |-> device_nameB,
     vendor_id |-> vendor_idB,
     product_id |-> product_idB,
     serial_number |-> serial_numberB,
     event_type |-> "Connected",
     device_handle |-> [Macos |-> [device_id |-> Display(deviceB)]]]

\* A completed send of the second pass (line 107).
SendCompletesB(outcome) ==
    /\ outcome # "pending"
    /\ IF outcome = "ready"
       THEN /\ chan' = Append(chan, UsbDeviceInfoB)
            /\ sendOkB' = sendOkB + 1
       ELSE /\ chan' = chan
            /\ sendOkB' = sendOkB
    /\ pcB' = "release"

\* Lines 96-107, second pass: the first poll of the send.
SendB ==
    /\ pcB = "send"
    /\ LET outcome == SendPoll(chan, rxAlive) IN
         IF outcome = "pending"
         THEN /\ pcB' = "send_wait"
              /\ UNCHANGED <<chan, sendOkB>>
         ELSE SendCompletesB(outcome)
    /\ UNCHANGED <<resultB, iterB, registryB, cursorB, deviceB, device_nameB,
                   vendor_idB, product_idB, serial_numberB, heldIOB>>
    /\ UNCHANGED <<passAVars, rxAlive, received>>

\* Line 107, second pass, resumed.
SendResumeB ==
    /\ pcB = "send_wait"
    /\ SendCompletesB(SendPoll(chan, rxAlive))
    /\ UNCHANGED <<resultB, iterB, registryB, cursorB, deviceB, device_nameB,
                   vendor_idB, product_idB, serial_numberB, heldIOB>>
    /\ UNCHANGED <<passAVars, rxAlive, received>>

\* The second pass giving up the first pass's reference to the record in
\* place of its own, as if `device` were a field of the watcher.
ReleaseDeviceB_Shared ==
    /\ pcB = "release"
    /\ heldIO' = heldIO \ {device}
    /\ device_nameB' = ""
    /\ vendor_idB' = <<>>
    /\ product_idB' = <<>>
    /\ serial_numberB' = <<>>
    /\ pcB' = "next"
    /\ UNCHANGED <<resultB, iterB, registryB, cursorB, deviceB, heldIOB, sendOkB>>
    /\ UNCHANGED <<passVars, locals, heldCF, recAcquired, recReleased,
                   iterReleases, countVars, chanVars>>

\* Line 108, second pass.
ReleaseDeviceB ==
    /\ pcB = "release"
    /\ heldIOB' = heldIOB \ {deviceB}
    /\ device_nameB' = ""
    /\ vendor_idB' = <<>>
    /\ product_idB' = <<>>
    /\ serial_numberB' = <<>>
    /\ pcB' = "next"
    /\ UNCHANGED <<resultB, iterB, registryB, cursorB, deviceB, sendOkB>>
    /\ UNCHANGED <<passAVars, chanVars>>

\* Lines 110-112, second pass.
ReleaseIteratorB ==
    /\ pcB = "iter_release"
    /\ heldIOB' = heldIOB \ {iterB}
    /\ resultB' = Ok
    /\ pcB' = "done"
    /\ UNCHANGED <<iterB, registryB, cursorB, deviceB, device_nameB, vendor_idB,
                   product_idB, serial_numberB, sendOkB>>
    /\ UNCHANGED <<passAVars, chanVars>>

\* The first pass of TwoSpec: the steps of Pass, taken while the second
\* future is not running, its lookup meeting a registry of TwoRegistries.
PassA ==
    \/ ParkedB /\ IOServiceMatching
    \/ ParkedB /\ IOServiceGetMatchingServices /\ registry' \in TwoRegistries
    \/ ParkedB /\ IOIteratorNext
    \/ ParkedB /\ IORegistryEntryGetName
    \/ ParkedB /\ ReadVendor
    \/ ParkedB /\ ReadProduct
    \/ ParkedB /\ ReadSerial
    \/ ParkedB /\ Send
    \/ ParkedB /\ SendResume
    \/ ParkedB /\ ReleaseDevice
    \/ ParkedB /\ ReleaseIterator

\* The second pass, taken while the first future is not running.
PassB ==
    \/ ParkedA /\ IOServiceMatchingB
    \/ ParkedA /\ IOServiceGetMatchingServicesB
    \/ ParkedA /\ IOIteratorNextB
    \/ ParkedA /\ IORegistryEntryGetNameB
    \/ ParkedA /\ ReadVendorB
    \/ ParkedA /\ ReadProductB
    \/ ParkedA /\ ReadSerialB
    \/ ParkedA /\ SendB
    \/ ParkedA /\ SendResumeB
    \/ ParkedA /\ ReleaseDeviceB
    \/ ParkedA /\ ReleaseIteratorB

NextTwo == PassA \/ PassB \/ Consumer

\* Two passes on one watcher, polled from one task.
TwoSpec == Init /\ [][NextTwo]_vars

\* ================================================================ claims
\* The pass is suspended in the send: the queue is full, the receiver lives.
Blocked == pc = "send_wait" /\ rxAlive /\ Len(chan) = Cap

C3_ClosedChannelPass ==
    startedClosed =>
        /\ sendOk = 0 /\ chan = <<>> /\ received = <<>>
        /\ sendFails = visited + (IF pc = "release" THEN 1 ELSE 0)
        /\ pc # "send_wait"
        /\ (pc = "done" /\ kr = <<0>> =>
                /\ result = Ok
                /\ visited = Len(registry)
                /\ sendAttempts = Len(registry)
                /\ sendFails = Len(registry))

\* A pass over MaxRecords records ended with every send failed.
C3_Witness ==
    /\ startedClosed /\ pc = "done" /\ result = Ok
    /\ Len(registry) = MaxRecords /\ sendFails = MaxRecords

\* The decimal rendering read back as an integer.
DigitValue(c) == CHOOSE d \in 0..9 : DecDigit(d) = c

RECURSIVE ParseNat(_)
ParseNat(s) ==
    IF s = <<>> THEN 0
    ELSE 10 * ParseNat(SubSeq(s, 1, Len(s) - 1)) + DigitValue(s[Len(s)])

ParseInt(s) == IF Head(s) = "-" THEN 0 - ParseNat(Tail(s)) ELSE ParseNat(s)

\* C4: when the registry lookup returns a status s other than 0, the pass
\* returns the enumeration error, whose text carries exactly s; no record is
\* drawn from an iterator and no event is sent.
C4_LookupFailure ==
    (kr # <<>> /\ kr[1] # 0) =>
        /\ pc = "done"
        /\ result.kind = "Err"
        /\ Head(result.msg) = "IOServiceGetMatchingServices failed: "
        /\ ParseInt(Tail(result.msg)) = kr[1]
        /\ nextCalls = 0 /\ cursor = 0 /\ visited = 0
        /\ sendAttempts = 0 /\ chan = <<>> /\ received = <<>>

\* The lookup returned kIOReturnError and the pass has returned.
C4_Witness == kr = <<-536870212>> /\ pc = "done" /\ result.kind = "Err"

\* C5: when the matching dictionary cannot be built, the pass returns the
\* initialization error, the registry lookup is never called, no event is
\* sent, and no native resource is held at the return.
C5_FilterFailure ==
    (pc # "idle" /\ matching_dict = NULL) =>
        /\ pc = "done"
        /\ result = Err(<<"Failed to create matching dictionary for IOUSBDevice">>)
        /\ kr = <<>> /\ iter = 0 /\ nextCalls = 0
        /\ sendAttempts = 0 /\ chan = <<>> /\ received = <<>>
        /\ heldIO = {} /\ heldCF = {}

\* IOServiceMatching returned null and the pass has returned.
C5_Witness == pc = "done" /\ matching_dict = NULL /\ result.kind = "Err"

\* The properties start_monitoring reads from a record.
PropertyKeys == {"idVendor", "idProduct", "USB Serial Number"}

\* The properties of a record that are present, each of which costs one
\* property reference to read.
PresentKeys(rec) ==
    {k \in PropertyKeys : IORegistryEntryCreateCFProperty(rec, k) # <<>>}

\* C6: when the pass moves on from a record (to the next draw, or out of the
\* loop), the native resources acquired for it (its handle and one reference
\* per property present) have all been released, whatever the outcomes of the
\* name lookup, of the three property reads and of the send were.
C6_RecordResourcesBalanced ==
    pc \in {"next", "iter_release", "done"} =>
        /\ recAcquired = recReleased
        /\ heldCF = {}
        /\ heldIO \subseteq {iter}
        /\ (visited > 0 =>
                recAcquired = 1 + Cardinality(PresentKeys(registry[cursor])))

\* The pass has moved on from a record whose name lookup failed, whose
\* vendor number fails the 16-bit coercion, whose product number is
\* readable, whose serial number is the empty text, and whose send failed.
C6_Witness ==
    /\ pc = "next" /\ visited = 1 /\ sendFails = 1
    /\ registry[1].name = <<>>
    /\ registry[1].idVendor = <<32903>>
    /\ registry[1].idProduct = <<10>>
    /\ registry[1].serial = <<"">>
    /\ recAcquired = 4 /\ recReleased = 4

\* C7: a pass that obtained an iterator releases it exactly once, at its
\* end and not before; it is never released twice, and a pass whose lookup
\* failed releases no iterator.
C7_IteratorReleasedOnce ==
    /\ iterReleases <= 1
    /\ (iter = 0 => iterReleases = 0)
    /\ (iter # 0 /\ pc # "done" => iterReleases = 0 /\ iter \in heldIO)
    /\ (iter # 0 /\ pc = "done" => iterReleases = 1 /\ iter \notin heldIO)

\* A pass over MaxRecords records has returned with its iterator released.
C7_Witness ==
    pc = "done" /\ iter # 0 /\ visited = MaxRecords /\ iterReleases = 1

HexDigitValue(c) == CHOOSE d \in 0..15 : HexDigit(d) = c

RECURSIVE HexValue(_)
HexValue(s) ==
    IF s = <<>> THEN 0
    ELSE 16 * HexValue(SubSeq(s, 1, Len(s) - 1)) + HexDigitValue(s[Len(s)])

\* The number under an id property can be read as a 16-bit number.
Coercible(prop) == prop # <<>> /\ -32768 <= prop[1] /\ prop[1] <= 32767

\* text is the id field the mapping of C8 gives for the property prop: the
\* 4 hex digits of the number's 16 bits, or "0000".
IdMatches(text, prop) ==
    IF Coercible(prop)
    THEN Len(text) = 4 /\ HexValue(text) = prop[1] % 65536
    ELSE text = <<"0", "0", "0", "0">>

\* ev is the image of the record rec under the mapping of C8.
EventMatches(ev, rec) ==
    /\ ev.device_name = (IF rec.name = <<>> THEN "Unknown USB Device" ELSE rec.name[1])
    /\ IdMatches(ev.vendor_id, rec.idVendor)
    /\ IdMatches(ev.product_id, rec.idProduct)
    /\ ev.serial_number = (IF rec.serial = <<"">> THEN <<>> ELSE rec.serial)
    /\ ev.event_type = "Connected"

\* C8: with a consumer that accepts every event, the events taken from the
\* channel, followed by those still queued, are the images of the first
\* records of the registry, in registry order, none skipped, duplicated or
\* reordered; after the pass they are the images of all the records.
C8_EventsInRegistryOrder ==
    rxAlive =>
        LET got == received \o chan IN
        /\ Len(got) = sendOk
        /\ Len(got) <= Len(registry)
        /\ \A i \in 1..Len(got) : EventMatches(got[i], registry[i])
        /\ (pc = "done" /\ result = Ok => Len(got) = Len(registry))

\* The two-record scenario: record A (Widget, 0x1234, 0x5678, "ABC123"),
\* then record B (no name, no ids, no serial number), both received.
C8_Witness ==
    /\ pc = "done" /\ rxAlive /\ chan = <<>>
    /\ registry =
         << [name |-> <<"Widget">>, idVendor |-> <<4660>>,
             idProduct |-> <<22136>>, serial |-> <<"ABC123">>],
            [name |-> <<>>, idVendor |-> <<>>,
             idProduct |-> <<>>, serial |-> <<>>] >>
    /\ Len(received) = 2
    /\ received[1].device_name = "Widget"
    /\ received[1].vendor_id = <<"1", "2", "3", "4">>
    /\ received[1].product_id = <<"5", "6", "7", "8">>
    /\ received[1].serial_number = <<"ABC123">>
    /\ received[1].event_type = "Connected"
    /\ received[2].device_name = "Unknown USB Device"
    /\ received[2].vendor_id = <<"0", "0", "0", "0">>
    /\ received[2].product_id = <<"0", "0", "0", "0">>
    /\ received[2].serial_number = <<>>
    /\ received[2].event_type = "Connected"

\* C9: the pass returns an error only when the matching dictionary or the
\* registry lookup failed; once it has an iterator it returns Ok, and every
\* record of the iterator has been visited by then, whatever failed on the way.
C9_OnlyFatalErrorsSurface ==
    /\ (pc # "done" => result = Pending)
    /\ (pc = "done" =>
            /\ result.kind \in {"Ok", "Err"}
            /\ (result.kind = "Err" <=>
                    (matching_dict = NULL \/ (kr # <<>> /\ kr[1] # 0))))
    /\ (pc = "done" /\ iter # 0 =>
            /\ result = Ok
            /\ cursor = Len(registry)
            /\ visited = Len(registry))

\* A pass returned Ok after a first record whose name lookup failed, whose
\* vendor number was not coercible and whose serial number was absent, and
\* after a failed send.
C9_Witness ==
    /\ pc = "done" /\ result = Ok /\ visited = MaxRecords /\ sendFails >= 1
    /\ registry[1].name = <<>>
    /\ registry[1].idVendor = <<32903>>
    /\ registry[1].serial = <<>>

HexChars ==
    {"0","1","2","3","4","5","6","7","8","9","a","b","c","d","e","f"}

IsHex4(text) == Len(text) = 4 /\ \A i \in 1..Len(text) : text[i] \in HexChars

\* C10: in every event on the channel, vendor_id and product_id are exactly
\* 4 characters out of 0-9 and a-f, also for numbers with the top bit set.
C10_IdsAreFourHexDigits ==
    /\ \A i \in 1..Len(chan) :
            IsHex4(chan[i].vendor_id) /\ IsHex4(chan[i].product_id)
    /\ \A i \in 1..Len(received) :
            IsHex4(received[i].vendor_id) /\ IsHex4(received[i].product_id)

\* An event of a record with vendor -1 (all 16 bits set) and product 10
\* (one significant digit) is on the channel.
C10_Witness ==
    /\ Len(chan) = 1
    /\ registry[cursor].idVendor = <<-1>>
    /\ registry[cursor].idProduct = <<10>>
    /\ chan[1].vendor_id = <<"f", "f", "f", "f">>
    /\ chan[1].product_id = <<"0", "0", "0", "a">>

\* The positions of the pass at which the current record's event fields
\* have all been computed.
FieldsReady == pc \in {"send", "send_wait", "release"}

\* C11: for the vendor and the product id independently, an absent property
\* and a number that cannot be coerced to 16 bits both give the field "0000",
\* and what one id's read yields does not change the other id's field.
C11_IdDefaultsIndependent ==
    LET rec == registry[cursor] IN
    /\ (pc \in {"product", "serial"} \/ FieldsReady) =>
            /\ (~Coercible(rec.idVendor) => vendor_id = <<"0", "0", "0", "0">>)
            /\ IdMatches(vendor_id, rec.idVendor)
    /\ (pc = "serial" \/ FieldsReady) =>
            /\ (~Coercible(rec.idProduct) => product_id = <<"0", "0", "0", "0">>)
            /\ IdMatches(product_id, rec.idProduct)

\* The vendor number is not coercible and gave "0000" while the product
\* number of the same record gave its own digits.
C11_Witness ==
    /\ pc = "send"
    /\ registry[cursor].idVendor = <<65535>>
    /\ registry[cursor].idProduct = <<4660>>
    /\ vendor_id = <<"0", "0", "0", "0">>
    /\ product_id = <<"1", "2", "3", "4">>

\* C12: no event has a serial number that is present and empty: a missing
\* property and an empty text both give an absent serial number, a non-empty
\* text gives exactly that text.
C12_SerialNeverEmpty ==
    /\ \A i \in 1..Len(chan) : chan[i].serial_number # <<"">>
    /\ \A i \in 1..Len(received) : received[i].serial_number # <<"">>
    /\ FieldsReady =>
            serial_number =
                (IF registry[cursor].serial \in {<<>>, <<"">>}
                 THEN <<>> ELSE registry[cursor].serial)

\* The event of a record whose serial number is the empty text is on the
\* channel with no serial number.
C12_Witness ==
    /\ pc = "release" /\ Len(chan) = 1
    /\ registry[cursor].serial = <<"">>
    /\ chan[1].serial_number = <<>>

\* C13: every event on the channel or taken from it has the kind Connected;
\* no Disconnected event is reachable.
C13_AlwaysConnected ==
    /\ \A i \in 1..Len(chan) : chan[i].event_type = "Connected"
    /\ \A i \in 1..Len(received) : received[i].event_type = "Connected"

\* MaxRecords events were received.
C13_Witness ==
    Len(received) = MaxRecords /\ received[MaxRecords].event_type = "Connected"

\* The record handles the pass holds (every handle but the iterator's).
RecordHandles == heldIO \ {iter}

\* The positions of the pass inside the loop body, where a record is current.
InRecord ==
    pc \in {"name", "vendor", "product", "serial", "send", "send_wait", "release"}

\* C14: a pass holds at most one record handle at any time: the handle of
\* the current record while the loop body runs, none when the next record is
\* drawn, whatever the name lookup, the property reads and the send yielded.
C14_OneRecordHandle ==
    /\ Cardinality(RecordHandles) <= 1
    /\ (InRecord => RecordHandles = {device})
    /\ (~InRecord => RecordHandles = {})

\* The second record has been drawn after a first record whose name lookup
\* failed, whose vendor number was not coercible and whose send failed, and
\* its handle is the only record handle held.
C14_Witness ==
    /\ pc = "name" /\ cursor = 2 /\ sendFails = 1
    /\ registry[1].name = <<>>
    /\ registry[1].idVendor = <<32903>>
    /\ heldIO = {iter, DevicePort(2)}

\* The keys whose read has returned when the pass is at pc.
KeysRead ==
    CASE pc = "product" -> {"idVendor"}
      [] pc = "serial" -> {"idVendor", "idProduct"}
      [] FieldsReady -> PropertyKeys
      [] OTHER -> {}

\* C15: when a property read has returned, the reference it acquired has been
\* released (one acquisition and one release per property present, whether
\* the value was returned, the coercion failed or the text was empty; none of
\* either for an absent property), so no property reference is held at the
\* send or at the draw of the next record.
C15_PropertyReferencesScoped ==
    /\ heldCF \cap PropertyKeys = {}
    /\ InRecord =>
         LET n == Cardinality(PresentKeys(registry[cursor]) \cap KeysRead) IN
         recAcquired = 1 + n /\ recReleased = n

\* At the send of a record whose vendor number fails the coercion, whose
\* product id is absent and whose serial number is the empty text: two
\* references acquired and released, none held.
C15_Witness ==
    /\ pc = "send"
    /\ registry[cursor].idVendor = <<32903>>
    /\ registry[cursor].idProduct = <<>>
    /\ registry[cursor].serial = <<"">>
    /\ recAcquired = 3 /\ recReleased = 2 /\ heldCF = {}

\* The current record's send has been started / has completed.
SendStarted == IF pc \in {"send_wait", "release"} THEN 1 ELSE 0
SendEnded == IF pc = "release" THEN 1 ELSE 0

\* C18: one event is built and one send attempt made per record drawn: the
\* send attempts are the records whose loop body has ended plus the current
\* record once its send has started, so between records the attempts equal
\* the records visited and the records drawn; the events delivered never
\* exceed the records drawn.
C18_OneSendPerRecord ==
    /\ sendAttempts = visited + SendStarted
    /\ sendOk + sendFails = visited + SendEnded
    /\ (~InRecord => sendAttempts = visited /\ visited = cursor)
    /\ (InRecord => cursor = visited + 1)
    /\ Len(received) + Len(chan) <= sendOk
    /\ sendOk <= cursor
    /\ cursor <= Len(registry)

\* A pass over MaxRecords records ended with one event delivered and one
\* dropped.
C18_Witness ==
    /\ pc = "done" /\ visited = MaxRecords
    /\ sendAttempts = MaxRecords
    /\ sendOk >= 1 /\ sendFails >= 1 /\ Len(received) = sendOk

\* A rendering of an integer handle: decimal digits only.
IsDecimalText(text) ==
    /\ Len(text) >= 1
    /\ \A i \in 1..Len(text) : \E d \in 0..9 : text[i] = DecDigit(d)

\* The event holds texts and an event kind, and its handle is the decimal
\* rendering of a record handle, not the handle.
CarriesCopies(ev) ==
    /\ IsDecimalText(ev.device_handle.Macos.device_id)
    /\ ParseNat(ev.device_handle.Macos.device_id)
            \in {DevicePort(i) : i \in 1..Len(registry)}
    /\ DOMAIN ev = {"device_name", "vendor_id", "product_id", "serial_number",
                    "event_type", "device_handle"}

\* C19: every native operation acts on a handle that is still held: the name
\* lookup, the property reads, the rendering of the handle and the release
\* of a record come while its handle is held; the iterator is held whenever a
\* record is drawn from it and when it is released, after which the pass has
\* returned; and the events on the channel carry the rendering of the handle,
\* which stays as it is when the handle is released.
C19_NoUseAfterRelease ==
    /\ (pc \in {"name", "vendor", "product", "serial", "send", "release"} =>
            device # 0 /\ device \in heldIO)
    /\ (pc \in {"next", "iter_release"} => iter # 0 /\ iter \in heldIO)
    /\ (iterReleases > 0 => pc = "done")
    /\ \A i \in 1..Len(chan) : CarriesCopies(chan[i])
    /\ \A i \in 1..Len(received) : CarriesCopies(received[i])

\* The second record is at its send, its handle held, while the event of the
\* first record, whose handle has been released, is still queued.
C19_Witness ==
    /\ pc = "send" /\ cursor = 2
    /\ device = DevicePort(2) /\ device \in heldIO
    /\ DevicePort(1) \notin heldIO
    /\ Len(chan) = 1
    /\ chan[1].device_handle.Macos.device_id = <<"2", "6", "3">>

\* C16: the native resources a pass holds are released on every exit, the
\* abandonment of the pass while it is suspended in the send included: after
\* it, neither the record handle nor the iterator is still held.
C16_ReleasedOnAbandon == pc = "cancelled" => heldIO = {}

\* What the code does instead: an abandoned pass keeps the iterator and the
\* handle of the record whose send was pending.
C16_AbandonLeaks == pc = "cancelled" => heldIO = {iter, device}

\* The io_object_t references a pass at position p owns: its iterator from
\* the lookup to line 110, and the record it is working on.
OwnHandles(p, it, dev) ==
    (IF it # 0 /\ p # "done" THEN {it} ELSE {})
        \cup (IF p \in {"name", "vendor", "product", "serial", "send",
                        "send_wait", "release"}
              THEN {dev} ELSE {})

\* ev is the event of the record at position i of the registry reg.
EventOfRecord(ev, reg, i) ==
    /\ i <= Len(reg)
    /\ EventMatches(ev, reg[i])
    /\ ev.device_handle.Macos.device_id = DecDigits(DevicePort(i))

\* got interleaves the events of the records ra[ia..na] and rb[ib..nb], each
\* of the two in its own order.
RECURSIVE Interleaves(_, _, _, _, _, _, _)
Interleaves(got, ra, ia, na, rb, ib, nb) ==
    IF got = <<>>
    THEN ia = na + 1 /\ ib = nb + 1
    ELSE \/ /\ ia <= na
            /\ EventOfRecord(Head(got), ra, ia)
            /\ Interleaves(Tail(got), ra, ia + 1, na, rb, ib, nb)
         \/ /\ ib <= nb
            /\ EventOfRecord(Head(got), rb, ib)
            /\ Interleaves(Tail(got), ra, ia, na, rb, ib + 1, nb)

\* C17: when two passes on one watcher interleave at their sends, each pass
\* holds exactly the iterator and the record handle it acquired itself and
\* gives up no other, and with a consumer that accepts every event the
\* channel carries the events of each pass in that pass's registry order,
\* all of them once both passes have returned.
C17_PassesKeepApart ==
    /\ heldIO = OwnHandles(pc, iter, device)
    /\ heldIOB = OwnHandles(pcB, iterB, deviceB)
    /\ rxAlive =>
          /\ Interleaves(received \o chan, registry, 1, sendOk,
                         registryB, 1, sendOkB)
          /\ (pc = "done" /\ result = Ok => sendOk = Len(registry))
          /\ (pcB = "done" /\ resultB = Ok => sendOkB = Len(registryB))

\* Both passes met several records, the first only named ones and the second
\* only unnamed ones; both returned, and the consumer received their events
\* alternating: each pass resumed while the other was suspended in its send.
C17_Witness ==
    /\ pc = "done" /\ pcB = "done" /\ rxAlive /\ chan = <<>>
    /\ Len(registry) >= 2 /\ Len(registryB) >= 2
    /\ sendOk = Len(registry) /\ sendOkB = Len(registryB)
    /\ \A i \in 1..Len(registry) : registry[i].name = <<"Widget">>
    /\ \A i \in 1..Len(registryB) : registryB[i].name = <<>>
    /\ Len(received) = sendOk + sendOkB
    /\ received[1].device_name = "Widget"
    /\ received[2].device_name = "Unknown USB Device"
    /\ received[3].device_name = "Widget"
    /\ received[4].device_name = "Unknown USB Device"

====
